---- MODULE Spec2Model ----
(***************************************************************************)
(* Socket workers of the aquatic BitTorrent tracker.                       *)
(*                                                                         *)
(*   aquatic_http/src/lib/glommio/network.rs  HTTP-over-TLS socket worker  *)
(*   aquatic_ws/src/lib/network/mod.rs        WebSocket socket worker      *)
(*                                                                         *)
(* One socket worker is modelled.  The variable transport says which of    *)
(* the two binaries runs; the HTTP actions are enabled only under "http",  *)
(* the WebSocket actions only under "ws".                                  *)
(*                                                                         *)
(* Abstractions: an InfoHash is a byte array of which only byte 0 is kept  *)
(* (the only byte the socket worker reads); the plaintext a peer sends is  *)
(* a sequence of tokens ("head" carrying a request line, "end" the blank   *)
(* line that ends the request head, "garbage" bytes that are no HTTP, and  *)
(* "badtls" a record the TLS layer rejects); the TLS handshake is taken as *)
(* done.  A stream read returns the bytes that have arrived; the peer's    *)
(* sends interleave with the reads, so every chunking is covered.          *)
(***************************************************************************)
EXTENDS Integers, Sequences, FiniteSets, TLC

\* ---------------------------------------------------------------- bounds

\* config.request_workers
R == 2
\* connections the listener accepts
MaxConns == 2
\* capacity of one mesh channel (request mesh and response mesh)
ChanCap == 1
\* largest value of byte 0 of an InfoHash
MaxByte0 == 2
\* info hashes in one Scrape request
MaxHashes == 2
\* request heads and garbage tokens the peers send, over all connections
MaxRequests == 2
\* peer socket addresses
NumAddrs == 2
\* largest ScrapeStatistics value a request worker reports
MaxStat == 0
\* width of usize, in bits, for pending_worker_responses
UsizeBits == 3
\* width of usize, in bits, for the WebSocket poll token counter
TokenBits == 2
\* config.cleaning.max_connection_age, in clock ticks
MaxAge == 1
\* clock ticks, poll iterations and peer messages of the WebSocket worker
MaxTime == 1
MaxIters == 4
MaxMessages == 1
\* bytes in a response body
MaxBody == 100
\* shards that answer one Scrape, and the largest statistic they report
MergeShards == 3
MergeStat == 1

\* ------------------------------------------------------------- data model

None == <<>>
Some(x) == <<x>>
IsSome(o) == o /= <<>>
Unwrap(o) == o[1]

Range(s) == {s[i] : i \in 1..Len(s)}

InfoHashes == {<<b>> : b \in 0..MaxByte0}

Byte0(info_hash) == info_hash[1]

ConnIds == 0..(MaxConns - 1)
Workers == 0..(R - 1)
Addrs == 1..NumAddrs

\* The ascending sequence of the elements of a set of integers
\* (the iteration order of a BTreeMap<usize, _>).
RECURSIVE SortedSeq(_)
SortedSeq(S) ==
    IF S = {} THEN <<>>
    ELSE LET m == CHOOSE x \in S : \A y \in S : x <= y
         IN  <<m>> \o SortedSeq(S \ {m})

\* Info-hash lists of a Scrape (a Vec<InfoHash>: any order, repeats
\* allowed), by their first bytes.
HashLists ==
    UNION {[1..n -> 0..MaxByte0] : n \in 0..MaxHashes}

ToHashes(bytes) == [i \in 1..Len(bytes) |-> <<bytes[i]>>]

AnnounceRequests == {[kind |-> "Announce", info_hashes |-> <<h>>] : h \in InfoHashes}
ScrapeRequests == {[kind |-> "Scrape", info_hashes |-> ToHashes(l)] : l \in HashLists}
Requests == AnnounceRequests \cup ScrapeRequests
NoRequest == [kind |-> "None", info_hashes |-> <<>>]

HeadTok(r) == [t |-> "head", request |-> r]
EndTok == [t |-> "end", request |-> NoRequest]
GarbageTok == [t |-> "garbage", request |-> NoRequest]
BadTlsTok == [t |-> "badtls", request |-> NoRequest]

\* The empty files map.
NoFiles == [h \in {} |-> 0]

Stats == 0..MaxStat

\* ---------------------------------------------------------------- state

VARIABLES
    transport,          \* "http" or "ws": the binary that runs
    env,                \* what the peers do: the requests they send, how
                        \* many connections they open, how many requests
    keep_alive,         \* config.network.keep_alive
    connection_slab,    \* keys of the Slab<ConnectionReference>
    conn,               \* the Connection of each key, and its task's position
    inbox,              \* the local channel response_sender -> response_receiver
    stream,             \* the TcpStream of each connection, and its peer
    request_mesh,       \* per request worker: ChannelRequests in flight
    response_mesh,      \* per request worker: ChannelResponses in flight
    dispatch_log,       \* history: try_send_to calls of the last handle_request
    read_log,           \* history: the length of every successful stream read
    peer_log,           \* history: the tokens the peer sent
    strays,             \* history: responses sent that answer no request
    demux_log           \* history: what receive_responses did with each
                        \* response it took

httpVars == <<keep_alive, connection_slab, conn, inbox, stream, request_mesh,
              response_mesh, dispatch_log, read_log, peer_log, strays,
              demux_log>>

VARIABLES
    connections,        \* ConnectionMap: the connection of each poll token
    poll_loop,          \* locals of run_poll_loop: poll_token_counter,
                        \* iter_counter, valid_until, the events of the
                        \* iteration still to handle
    now,                \* the clock
    backlog,            \* peers waiting in the listener's accept queue
    ws_stream,          \* the socket of each poll token, and its peer
    in_messages,        \* the channel to the request workers
    out_messages,       \* the channel from the request workers
    ws_written,         \* history: what send_out_messages did with each
                        \* message, and the connection under its token
    ws_count,           \* history: connections accepted, messages sent
    sweep_log,          \* history: the poll iterations that ran the sweep,
                        \* and the connections each one removed
    overdue             \* history: per poll token, the poll iterations that
                        \* ended since the connection's deadline passed

wsVars == <<connections, poll_loop, now, backlog, ws_stream, in_messages,
            out_messages, ws_written, ws_count, sweep_log, overdue>>

VARIABLES
    body,               \* queue_response: the serialized body of a response
    response_bytes,     \* queue_response: the bytes handed to the TLS writer
    reserved            \* queue_response: the capacity asked of Vec::with_capacity

bytesVars == <<body, response_bytes, reserved>>

VARIABLES
    shard_responses,    \* the files of the shard responses of one Scrape
    merged,             \* the shard responses taken from the receiver so far
    pending_scrape,     \* Connection::pending_scrape_response
    scrape_response     \* the files of the Response::Scrape, once it is built

mergeVars == <<shard_responses, merged, pending_scrape, scrape_response>>

vars == <<transport, env, httpVars, wsVars, bytesVars, mergeVars>>

VacantConnection ==
    [pc |-> "vacant", connection_id |-> 0, request_buffer |-> <<>>,
     close_after_writing |-> FALSE, pending_scrape_response |-> None,
     tls_writer |-> <<>>, request |-> NoRequest]

\* The connection is given the key of the entry that was reserved after
\* its own.
NewConnectionNextKey(key) ==
    [VacantConnection EXCEPT !.pc = "read_tls", !.connection_id = key + 1]

\* Connection { connection_id: ConnectionId(entry.key()), .. }
NewConnection(key) ==
    [VacantConnection EXCEPT !.pc = "read_tls", !.connection_id = key]

NoStream == [peer_addr |-> 0, rx |-> <<>>, peer |-> "none", tx |-> <<>>, shutdown |-> FALSE]

InitHttp ==
    /\ connection_slab = {}
    /\ conn = [c \in ConnIds |-> VacantConnection]
    /\ inbox = [c \in ConnIds |-> <<>>]
    /\ stream = [c \in ConnIds |-> NoStream]
    /\ request_mesh = [w \in Workers |-> <<>>]
    /\ response_mesh = [w \in Workers |-> <<>>]
    /\ dispatch_log = [c \in ConnIds |-> <<>>]
    /\ read_log = [c \in ConnIds |-> <<>>]
    /\ peer_log = [c \in ConnIds |-> <<>>]
    /\ strays = 0
    /\ demux_log = {}

InitBytes ==
    /\ body = <<>>
    /\ response_bytes = <<>>
    /\ reserved = 0

InitMerge ==
    /\ shard_responses = <<>>
    /\ merged = {}
    /\ pending_scrape = None
    /\ scrape_response = None

\* --------------------------------------------------------- pure functions

\* Bytes are their values; text is ASCII.
CR == 13
LF == 10
Digit0 == 48

\* b"HTTP/1.1 200 OK\r\nContent-Length: "
StatusAndContentLength ==
    <<72, 84, 84, 80, 47, 49, 46, 49, 32, 50, 48, 48, 32, 79, 75, CR, LF,
      67, 111, 110, 116, 101, 110, 116, 45, 76, 101, 110, 103, 116, 104, 58, 32>>

\* num_digits_in_usize: the number of decimal digits of a usize.
RECURSIVE num_digits_in_usize(_)
num_digits_in_usize(number) ==
    IF number >= 10 THEN 1 + num_digits_in_usize(number \div 10) ELSE 1

\* itoa::write: the decimal digits of the number, in ASCII.
RECURSIVE itoa_write(_)
itoa_write(number) ==
    IF number >= 10
    THEN itoa_write(number \div 10) \o <<Digit0 + (number % 10)>>
    ELSE <<Digit0 + number>>

\* The content length is taken to be the length of the body.
ContentLenOfBody(b) == Len(b)

\* let content_len = body.len() + 2
content_len(b) == Len(b) + 2

\* Vec::with_capacity(39 + content_len_num_digits + body.len())
ReservedCapacity(b) == 39 + num_digits_in_usize(content_len(b)) + Len(b)

\* The bytes queue_response writes to the TLS writer for a body.
ResponseBytes(b) ==
    StatusAndContentLength \o itoa_write(content_len(b))
        \o <<CR, LF, CR, LF>> \o b \o <<CR, LF>>

\* A shard index that is off by one.
ShardOffByOne(info_hash) == (Byte0(info_hash) + 1) % R

calculate_request_consumer_index(info_hash) == Byte0(info_hash) % R

\* Request::from_bytes: parses the request at the front of the buffer and
\* ignores what follows it.
from_bytes(buf) ==
    IF Len(buf) = 0 THEN [status |-> "NeedMoreData", request |-> NoRequest]
    ELSE IF buf[1].t /= "head" THEN [status |-> "Invalid", request |-> NoRequest]
    ELSE IF Len(buf) = 1 THEN [status |-> "NeedMoreData", request |-> NoRequest]
    ELSE IF buf[2].t = "end" THEN [status |-> "Ok", request |-> buf[1].request]
    ELSE [status |-> "Invalid", request |-> NoRequest]

\* info_hashes_by_worker of handle_request: the hashes of each shard, in
\* the order of the request.
\* Every shard is sent the whole list.
SelectWholeList(info_hashes, w) == info_hashes

SelectShard(info_hashes, w) ==
    SelectSeq(info_hashes, LAMBDA h : calculate_request_consumer_index(h) = w)

info_hashes_by_worker(info_hashes) ==
    [w \in {calculate_request_consumer_index(h) : h \in Range(info_hashes)}
        |-> SelectShard(info_hashes, w)]

ChannelRequest(kind, info_hashes, c, peer_addr) ==
    [kind |-> kind, info_hashes |-> info_hashes, connection_id |-> c,
     peer_addr |-> peer_addr]

\* Senders::try_send_to: fails when the channel is full.
CanSend(mesh, w) == Len(mesh[w]) < ChanCap

\* The try_send_to calls handle_request makes for a request, in order.
RequestSends(request, c, peer_addr) ==
    IF request.kind = "Announce"
    THEN <<[to |-> calculate_request_consumer_index(request.info_hashes[1]),
            msg |-> ChannelRequest("Announce", request.info_hashes, c, peer_addr)]>>
    ELSE LET by_worker == info_hashes_by_worker(request.info_hashes)
             keys == SortedSeq(DOMAIN by_worker)
         IN  [i \in 1..Len(keys) |->
                 [to |-> keys[i],
                  msg |-> ChannelRequest("Scrape", by_worker[keys[i]], c, peer_addr)]]

\* The request mesh after the sends, each a try_send_to.
RECURSIVE MeshAfter(_, _)
MeshAfter(mesh, sends) ==
    IF sends = <<>> THEN mesh
    ELSE LET s == sends[1]
             next == IF CanSend(mesh, s.to)
                     THEN [mesh EXCEPT ![s.to] = Append(@, s.msg)]
                     ELSE mesh
         IN  MeshAfter(next, Tail(sends))

\* The log of the sends: each with whether try_send_to succeeded.
RECURSIVE LogOf(_, _)
LogOf(mesh, sends) ==
    IF sends = <<>> THEN <<>>
    ELSE LET s == sends[1]
             ok == CanSend(mesh, s.to)
             next == IF ok THEN [mesh EXCEPT ![s.to] = Append(@, s.msg)] ELSE mesh
         IN  <<[to |-> s.to, msg |-> s.msg, ok |-> ok]>> \o LogOf(next, Tail(sends))

PendingAfter(request, pending) ==
    IF request.kind = "Scrape"
    THEN Some([pending_worker_responses |->
                   Cardinality(DOMAIN info_hashes_by_worker(request.info_hashes)),
               stats |-> NoFiles])
    ELSE pending

\* The files of the response replace the statistics gathered so far.
ExtendReplacesAll(stats, more) == more

\* BTreeMap::extend: the entries of more replace those of stats.
Extend(stats, more) ==
    [h \in (DOMAIN stats) \cup (DOMAIN more) |->
        IF h \in DOMAIN more THEN more[h] ELSE stats[h]]

Response(kind, info_hashes, files) ==
    [kind |-> kind, info_hashes |-> info_hashes, files |-> files]

FailureResponse ==
    [kind |-> "Failure", info_hashes |-> <<>>, files |-> NoFiles,
     failure_reason |-> "Invalid request"]

\* ------------------------------------------------------- HTTP: the peers

\* Tokens other than "end" sent so far, over all connections.
RECURSIVE CountSent(_)
CountSent(S) ==
    IF S = {} THEN 0
    ELSE LET c == CHOOSE x \in S : TRUE
         IN  Cardinality({i \in 1..Len(peer_log[c]) :
                             peer_log[c][i].t /= "end"})
             + CountSent(S \ {c})

PeerMidRequest(c) ==
    /\ peer_log[c] /= <<>>
    /\ peer_log[c][Len(peer_log[c])].t = "head"

PeerSend(c, tok) ==
    /\ stream[c].peer = "open"
    /\ ~stream[c].shutdown
    /\ stream' = [stream EXCEPT ![c].rx = Append(@, tok)]
    /\ peer_log' = [peer_log EXCEPT ![c] = Append(@, tok)]
    /\ UNCHANGED <<transport, env, bytesVars, mergeVars, wsVars, strays, demux_log, keep_alive, connection_slab, conn, inbox,
                   request_mesh, response_mesh, dispatch_log, read_log>>

\* The peer sends the request line and headers of a request.
PeerSendHead(c) ==
    /\ transport = "http"
    /\ CountSent(ConnIds) < env.sends
    /\ \E r \in env.requests : PeerSend(c, HeadTok(r))

\* The peer sends the blank line that ends the request it began.
PeerSendEnd(c) ==
    /\ transport = "http"
    /\ PeerMidRequest(c)
    /\ PeerSend(c, EndTok)

\* The peer sends bytes that are no HTTP request, or no TLS record.
PeerSendGarbage(c) ==
    /\ transport = "http"
    /\ CountSent(ConnIds) < env.sends
    /\ \E tok \in {GarbageTok, BadTlsTok} : PeerSend(c, tok)

\* The peer closes its side (FIN), or the connection is reset (RST).
PeerClose(c) ==
    /\ transport = "http"
    /\ stream[c].peer = "open"
    /\ \E how \in {"closed", "reset"} :
          stream' = [stream EXCEPT ![c].peer = how,
                                   ![c].rx = IF how = "reset" THEN <<>> ELSE @]
    /\ UNCHANGED <<transport, env, bytesVars, mergeVars, wsVars, strays, demux_log, keep_alive, connection_slab, conn, inbox,
                   request_mesh, response_mesh, dispatch_log, read_log, peer_log>>

\* ------------------------------------------- HTTP: run_socket_worker

\* Slab::vacant_entry().key(): no entry is ever removed, so the next key is
\* the number of entries.
VacantKey == Cardinality(connection_slab)

\* One iteration of the accept loop: the connection is built with the
\* vacant key, its task is spawned (it first runs after the loop yields)
\* and the ConnectionReference is inserted.
Accept ==
    /\ transport = "http"
    /\ VacantKey \in ConnIds
    /\ VacantKey < env.conns
    /\ \E a \in env.addrs :
          stream' = [stream EXCEPT ![VacantKey] =
                        [NoStream EXCEPT !.peer_addr = a, !.peer = "open"]]
    /\ conn' = [conn EXCEPT ![VacantKey] = NewConnection(VacantKey)]
    /\ connection_slab' = connection_slab \cup {VacantKey}
    /\ UNCHANGED <<transport, env, bytesVars, mergeVars, wsVars, strays, demux_log, keep_alive, inbox, request_mesh, response_mesh,
                   dispatch_log, read_log, peer_log>>

\* The receiver of a connection whose task has returned is dropped.
ReceiverClosed(c) == conn[c].pc \in {"done", "error"}

\* The local channel is made with room for one response.
InboxAcceptsOne(c) == ~ReceiverClosed(c) /\ Len(inbox[c]) < 1

\* LocalSender::try_send: fails when the receiver is gone or the channel,
\* of capacity config.request_workers, is full.
InboxAccepts(c) == ~ReceiverClosed(c) /\ Len(inbox[c]) < R

\* What becomes of a response receive_responses takes: "absent" (no entry
\* under its connection_id), "closed" or "full" (try_send fails), or
\* "forwarded".
DemuxFate(channel_response) ==
    LET c == channel_response.connection_id
    IN  IF c \notin connection_slab THEN "absent"
        ELSE IF ReceiverClosed(c) THEN "closed"
        ELSE IF ~InboxAccepts(c) THEN "full"
        ELSE "forwarded"

\* The response goes to the first connection of the table that takes it.
ForwardToFirst(channel_response) ==
    LET open == {c \in connection_slab : InboxAccepts(c)}
    IN  IF open = {} THEN inbox
        ELSE LET c == CHOOSE x \in open : \A y \in open : x <= y
             IN  [inbox EXCEPT ![c] = Append(@, channel_response)]

\* The inboxes after receive_responses has handled one response.
Forward(channel_response) ==
    LET c == channel_response.connection_id
    IN  IF c \in connection_slab /\ InboxAccepts(c)
        THEN [inbox EXCEPT ![c] = Append(@, channel_response)]
        ELSE inbox

\* A demultiplexer that awaits room in the inbox (send in place of
\* try_send).
ReceiveResponsesAwaiting(w) ==
    /\ transport = "http"
    /\ response_mesh[w] /= <<>>
    /\ DemuxFate(response_mesh[w][1]) /= "full"
    /\ response_mesh' = [response_mesh EXCEPT ![w] = Tail(@)]
    /\ inbox' = Forward(response_mesh[w][1])
    /\ demux_log' = demux_log \cup
           {[response |-> response_mesh[w][1],
             fate |-> DemuxFate(response_mesh[w][1])]}
    /\ UNCHANGED <<transport, env, bytesVars, mergeVars, wsVars, strays, keep_alive, connection_slab,
                   conn, stream, request_mesh, dispatch_log, read_log, peer_log>>

\* receive_responses, one iteration, for the stream of request worker w.
ReceiveResponses(w) ==
    /\ transport = "http"
    /\ response_mesh[w] /= <<>>
    /\ response_mesh' = [response_mesh EXCEPT ![w] = Tail(@)]
    /\ inbox' = Forward(response_mesh[w][1])
    /\ demux_log' = demux_log \cup
           {[response |-> response_mesh[w][1],
             fate |-> DemuxFate(response_mesh[w][1])]}
    /\ UNCHANGED <<transport, env, bytesVars, mergeVars, wsVars, strays, keep_alive, connection_slab, conn, stream,
                   request_mesh, dispatch_log, read_log, peer_log>>

\* ------------------------------------------------ HTTP: request workers

\* A request worker takes a request and sends its response, the routing
\* envelope copied from the request.  The files of a Scrape response cover
\* any subset of the hashes asked for.
WorkerRespond(w) ==
    /\ transport = "http"
    /\ request_mesh[w] /= <<>>
    /\ Len(response_mesh[w]) < ChanCap
    /\ LET m == request_mesh[w][1]
       IN  \E S \in SUBSET Range(m.info_hashes) : \E files \in [S -> Stats] :
             /\ m.kind = "Announce" => S = {}
             /\ response_mesh' = [response_mesh EXCEPT ![w] = Append(@,
                    [kind |-> m.kind, info_hashes |-> m.info_hashes,
                     files |-> files, connection_id |-> m.connection_id,
                     peer_addr |-> m.peer_addr])]
    /\ request_mesh' = [request_mesh EXCEPT ![w] = Tail(@)]
    /\ UNCHANGED <<transport, env, bytesVars, mergeVars, wsVars, strays, demux_log, keep_alive, connection_slab, conn, inbox, stream,
                   dispatch_log, read_log, peer_log>>

\* A request worker sends a response that answers no request in flight (a
\* duplicate, or one with a wrong routing envelope).
StrayResponse(w) ==
    /\ transport = "http"
    /\ strays < env.strays
    /\ Len(response_mesh[w]) < ChanCap
    /\ \E kind \in env.stray_kinds, c \in ConnIds, a \in env.stray_addrs :
          response_mesh' = [response_mesh EXCEPT ![w] = Append(@,
              [kind |-> kind, info_hashes |-> <<>>, files |-> NoFiles,
               connection_id |-> c, peer_addr |-> a])]
    /\ strays' = strays + 1
    /\ UNCHANGED <<transport, env, bytesVars, mergeVars, wsVars, demux_log, keep_alive,
                   connection_slab, conn, inbox, stream, request_mesh,
                   dispatch_log, read_log, peer_log>>

\* Connection::queue_response, for the bytes of one response.
QueueResponseBytes ==
    /\ transport = "bytes"
    /\ response_bytes = <<>>
    /\ response_bytes' = ResponseBytes(body)
    /\ reserved' = ReservedCapacity(body)
    /\ UNCHANGED <<transport, env, httpVars, wsVars, mergeVars, body>>

\* The files of the responses of n shards to one Scrape: every info hash
\* is answered by the one shard it belongs to, or by none.
ShardResponses(n) ==
    {[i \in 1..n |-> [h \in {g \in InfoHashes : owner[g] = i} |-> value[h]]] :
        owner \in [InfoHashes -> 0..n], value \in [InfoHashes -> 0..MergeStat]}

\* wait_for_and_send_response, ChannelResponse::Scrape: the response of
\* shard i is the next to arrive and is merged into the pending scrape.
MergeShardResponse(i) ==
    /\ transport = "merge"
    /\ i \in (DOMAIN shard_responses) \ merged
    /\ IsSome(pending_scrape)
    /\ LET pending == Unwrap(pending_scrape)
           stats == Extend(pending.stats, shard_responses[i])
           left == pending.pending_worker_responses - 1
       IN  IF left = 0
           THEN /\ scrape_response' = Some(stats)
                /\ pending_scrape' = None
           ELSE /\ pending_scrape' =
                      Some([pending_worker_responses |-> left, stats |-> stats])
                /\ UNCHANGED scrape_response
    /\ merged' = merged \cup {i}
    /\ UNCHANGED <<transport, env, httpVars, wsVars, bytesVars, shard_responses>>

\* ------------------------------------------------- HTTP: Connection task

UsizeMax == 2^UsizeBits - 1

\* Connection::get_peer_addr: fails once the socket is no longer connected.
PeerAddrKnown(c) == stream[c].peer /= "reset"

\* Connection::queue_response: the response is handed to the TLS writer.
queue_response(k, response) ==
    [k EXCEPT !.tls_writer = Append(@, response)]

\* Connection::handle_request, on the connection record.
handle_request(k, request) ==
    [k EXCEPT !.pending_scrape_response = PendingAfter(request, @),
              !.request = request,
              !.pc = "wait_for_response"]

\* read_tls that answers an invalid request and keeps the connection.
ReadBytesInvalidKeepsOpen(c, n) ==
    LET data == SubSeq(stream[c].rx, 1, n)
        buf == conn[c].request_buffer \o data
        parsed == from_bytes(buf)
        k == [conn[c] EXCEPT !.request_buffer = buf]
        sends == RequestSends(parsed.request, conn[c].connection_id,
                              stream[c].peer_addr)
    IN  /\ stream' = [stream EXCEPT ![c].rx = SubSeq(@, n + 1, Len(@))]
        /\ read_log' = [read_log EXCEPT ![c] = Append(@, n)]
        /\ IF \E i \in 1..n : data[i].t = "badtls"
           THEN \* tls.process_new_packets()? fails
                /\ conn' = [conn EXCEPT ![c].pc = "error"]
                /\ UNCHANGED <<request_mesh, dispatch_log>>
           ELSE IF parsed.status = "Ok"
           THEN /\ conn' = [conn EXCEPT ![c] = handle_request(k, parsed.request)]
                /\ request_mesh' = MeshAfter(request_mesh, sends)
                /\ dispatch_log' = [dispatch_log EXCEPT ![c] = Append(@,
                       [request |-> parsed.request,
                        sends |-> LogOf(request_mesh, sends)])]
           ELSE IF parsed.status = "Invalid"
           THEN /\ conn' = [conn EXCEPT ![c] =
                       [queue_response(k, FailureResponse) EXCEPT
                           !.pc = "write_tls"]]
                /\ UNCHANGED <<request_mesh, dispatch_log>>
           ELSE \* NeedMoreData; tls.wants_write() is false: read again
                /\ conn' = [conn EXCEPT ![c] = k]
                /\ UNCHANGED <<request_mesh, dispatch_log>>

\* read_tls after a read of n > 0 bytes (all the bytes that have arrived:
\* the model's requests fit the 1024 bytes of the read): TLS processing, then the parse of
\* the accumulated request buffer; on a request, handle_request follows in
\* the same step (handle_stream makes no await between them).
ReadBytes(c, n) ==
    LET data == SubSeq(stream[c].rx, 1, n)
        buf == conn[c].request_buffer \o data
        parsed == from_bytes(buf)
        k == [conn[c] EXCEPT !.request_buffer = buf]
        sends == RequestSends(parsed.request, conn[c].connection_id,
                              stream[c].peer_addr)
    IN  /\ stream' = [stream EXCEPT ![c].rx = SubSeq(@, n + 1, Len(@))]
        /\ read_log' = [read_log EXCEPT ![c] = Append(@, n)]
        /\ IF \E i \in 1..n : data[i].t = "badtls"
           THEN \* tls.process_new_packets()? fails
                /\ conn' = [conn EXCEPT ![c].pc = "error"]
                /\ UNCHANGED <<request_mesh, dispatch_log>>
           ELSE IF parsed.status = "Ok"
           THEN /\ conn' = [conn EXCEPT ![c] = handle_request(k, parsed.request)]
                /\ request_mesh' = MeshAfter(request_mesh, sends)
                /\ dispatch_log' = [dispatch_log EXCEPT ![c] = Append(@,
                       [request |-> parsed.request,
                        sends |-> LogOf(request_mesh, sends)])]
           ELSE IF parsed.status = "Invalid"
           THEN /\ conn' = [conn EXCEPT ![c] =
                       [queue_response(k, FailureResponse) EXCEPT
                           !.close_after_writing = TRUE, !.pc = "write_tls"]]
                /\ UNCHANGED <<request_mesh, dispatch_log>>
           ELSE \* NeedMoreData; tls.wants_write() is false: read again
                /\ conn' = [conn EXCEPT ![c] = k]
                /\ UNCHANGED <<request_mesh, dispatch_log>>

\* Connection::read_tls, one stream read.
ReadTls(c) ==
    /\ transport = "http"
    /\ conn[c].pc = "read_tls"
    /\ IF stream[c].peer = "reset"
       THEN \* self.stream.read(..)? fails
            /\ conn' = [conn EXCEPT ![c].pc = "error"]
            /\ UNCHANGED <<stream, read_log, request_mesh, dispatch_log>>
       ELSE IF stream[c].rx = <<>>
       THEN \* bytes_read == 0: the peer has closed
            /\ stream[c].peer = "closed"
            /\ conn' = [conn EXCEPT ![c].close_after_writing = TRUE,
                                    ![c].pc = "write_tls"]
            /\ UNCHANGED <<stream, read_log, request_mesh, dispatch_log>>
       ELSE ReadBytes(c, Len(stream[c].rx))
    /\ UNCHANGED <<transport, env, bytesVars, mergeVars, wsVars, strays, demux_log, keep_alive, connection_slab, inbox,
                   response_mesh, peer_log>>

\* The response is queued and keep_alive is not looked at.
RespondKeepsOpen(k, response) ==
    [queue_response(k, response) EXCEPT !.pc = "write_tls"]

\* The end of wait_for_and_send_response: the response is queued.
Respond(k, response) ==
    [queue_response(k, response) EXCEPT
        !.close_after_writing = IF keep_alive THEN @ ELSE TRUE,
        !.pc = "write_tls"]

\* The connection after it took channel_response from its inbox.
AfterResponse(c, channel_response, overflow) ==
    LET k == conn[c]
        failed == [k EXCEPT !.pc = "error"]
    IN  IF ~PeerAddrKnown(c) THEN failed
        ELSE IF channel_response.peer_addr /= stream[c].peer_addr THEN failed
        ELSE IF channel_response.kind = "Announce"
        THEN Respond(k, Response("Announce", channel_response.info_hashes, NoFiles))
        ELSE IF ~IsSome(k.pending_scrape_response)
        THEN failed
        ELSE LET pending == Unwrap(k.pending_scrape_response)
                 stats == Extend(pending.stats, channel_response.files)
                 left == (pending.pending_worker_responses - 1) % (UsizeMax + 1)
                 taken == [k EXCEPT !.pending_scrape_response = None]
             IN  IF pending.pending_worker_responses = 0 /\ overflow = "panic"
                 THEN [taken EXCEPT !.pc = "panicked"]
                 ELSE IF left = 0
                 THEN Respond(taken, Response("Scrape", <<>>, stats))
                 ELSE [k EXCEPT !.pending_scrape_response =
                          Some([pending_worker_responses |-> left, stats |-> stats])]

\* Connection::wait_for_and_send_response, one response_receiver.recv().
\* `pending_worker_responses -= 1` at 0 panics in a build with overflow
\* checks and wraps in one without.
WaitForResponse(c) ==
    /\ transport = "http"
    /\ conn[c].pc = "wait_for_response"
    /\ inbox[c] /= <<>>
    /\ inbox' = [inbox EXCEPT ![c] = Tail(@)]
    /\ \E overflow \in {"panic", "wrap"} :
          conn' = [conn EXCEPT ![c] = AfterResponse(c, inbox[c][1], overflow)]
    /\ UNCHANGED <<transport, env, bytesVars, mergeVars, wsVars, strays, demux_log, keep_alive, connection_slab, stream, request_mesh,
                   response_mesh, dispatch_log, read_log, peer_log>>

\* handle_stream without the close_after_writing test: after the write
\* the loop always reads again.
WriteTlsThenRead(c) ==
    /\ transport = "http"
    /\ conn[c].pc = "write_tls"
    /\ IF conn[c].tls_writer /= <<>> /\ stream[c].peer = "reset"
       THEN /\ conn' = [conn EXCEPT ![c].pc = "error"]
            /\ UNCHANGED stream
       ELSE /\ conn' = [conn EXCEPT
                   ![c].tls_writer = <<>>,
                   ![c].request = NoRequest,
                   ![c].pc = "read_tls"]
            /\ stream' = [stream EXCEPT ![c].tx = @ \o conn[c].tls_writer]
    /\ UNCHANGED <<transport, env, bytesVars, mergeVars, wsVars, strays, demux_log, keep_alive,
                   connection_slab, inbox, request_mesh, response_mesh,
                   dispatch_log, read_log, peer_log>>

\* Connection::write_tls, then the close_after_writing test of
\* handle_stream: the queued output is written to the peer; after it the
\* socket is shut down, or the loop reads again.
WriteTls(c) ==
    /\ transport = "http"
    /\ conn[c].pc = "write_tls"
    /\ IF conn[c].tls_writer /= <<>> /\ stream[c].peer = "reset"
       THEN \* self.stream.write_all(..)? fails
            /\ conn' = [conn EXCEPT ![c].pc = "error"]
            /\ UNCHANGED stream
       ELSE /\ conn' = [conn EXCEPT
                   ![c].tls_writer = <<>>,
                   ![c].request = NoRequest,
                   ![c].pc = IF conn[c].close_after_writing THEN "done" ELSE "read_tls"]
            /\ stream' = [stream EXCEPT
                   ![c].tx = @ \o conn[c].tls_writer,
                   ![c].shutdown = conn[c].close_after_writing]
    /\ UNCHANGED <<transport, env, bytesVars, mergeVars, wsVars, strays, demux_log, keep_alive, connection_slab, inbox, request_mesh,
                   response_mesh, dispatch_log, read_log, peer_log>>

\* ------------------------------------------- WebSocket: data and peers

LISTENER_TOKEN == 0
CHANNEL_TOKEN == 1

TokenModulus == 2^TokenBits
WsTokens == 2..(TokenModulus - 1)

AbsentConnection == [state |-> "absent", peer_addr |-> 0, valid_until |-> 0, id |-> 0]

NoWsStream == [rx |-> <<>>, peer |-> "none"]

\* ConnectionMeta: the poll token and the peer address; origin (history)
\* names the accepted connection the message was read from.
ConnectionMeta(token, connection) ==
    [poll_token |-> token, naive_peer_addr |-> connection.peer_addr,
     origin |-> connection.id]

WsAnnounce(h) == [kind |-> "AnnounceRequest", info_hash |-> h]
WsScrape == [kind |-> "ScrapeRequest", info_hash |-> <<>>]
WsUnparsable == [kind |-> "Unparsable", info_hash |-> <<>>]

ErrorResponse(reason) == [kind |-> "ErrorResponse", failure_reason |-> reason]

InitWs ==
    /\ connections = [t \in WsTokens |-> AbsentConnection]
    /\ poll_loop = [poll_token_counter |-> 0, iter_counter |-> 0,
                    valid_until |-> 0, phase |-> "poll", events |-> <<>>]
    /\ now = 0
    /\ backlog = <<>>
    /\ ws_stream = [t \in WsTokens |-> NoWsStream]
    /\ in_messages = <<>>
    /\ out_messages = <<>>
    /\ ws_written = <<>>
    /\ ws_count = [accepted |-> 0, sent |-> 0]
    /\ sweep_log = <<>>
    /\ overdue = [t \in WsTokens |-> 0]

\* A peer connects: it waits in the accept queue.
WsPeerConnect ==
    /\ transport = "ws"
    /\ ws_count.accepted + Len(backlog) < env.conns
    /\ \E a \in env.addrs : backlog' = Append(backlog, a)
    /\ UNCHANGED <<transport, env, bytesVars, mergeVars, httpVars, sweep_log, overdue, connections, poll_loop, now,
                   ws_stream, in_messages, out_messages, ws_written, ws_count>>

\* A peer sends a WebSocket message.
WsPeerSend(t) ==
    /\ transport = "ws"
    /\ ws_stream[t].peer = "open"
    /\ ws_count.sent < env.sends
    /\ \E m \in env.ws_messages :
          ws_stream' = [ws_stream EXCEPT ![t].rx = Append(@, m)]
    /\ ws_count' = [ws_count EXCEPT !.sent = @ + 1]
    /\ UNCHANGED <<transport, env, bytesVars, mergeVars, httpVars, sweep_log, overdue, connections, poll_loop, now,
                   backlog, in_messages, out_messages, ws_written>>

\* A peer closes its connection.
WsPeerClose(t) ==
    /\ transport = "ws"
    /\ ws_stream[t].peer = "open"
    /\ ws_stream' = [ws_stream EXCEPT ![t].peer = "closed"]
    /\ UNCHANGED <<transport, env, bytesVars, mergeVars, httpVars, sweep_log, overdue, connections, poll_loop, now,
                   backlog, in_messages, out_messages, ws_written, ws_count>>

WsTick ==
    /\ transport = "ws"
    /\ now < env.max_time
    /\ now' = now + 1
    /\ UNCHANGED <<transport, env, bytesVars, mergeVars, httpVars, sweep_log, overdue, connections, poll_loop, backlog,
                   ws_stream, in_messages, out_messages, ws_written, ws_count>>

\* A request worker answers the message it takes from the channel, the
\* ConnectionMeta copied from the message.
WsWorkerRespond ==
    /\ transport = "ws"
    /\ in_messages /= <<>>
    /\ in_messages' = Tail(in_messages)
    /\ out_messages' = Append(out_messages,
          [meta |-> in_messages[1].meta,
           msg |-> [kind |-> "Response", failure_reason |-> ""]])
    /\ UNCHANGED <<transport, env, bytesVars, mergeVars, httpVars, sweep_log, overdue, connections, poll_loop, now,
                   backlog, ws_stream, ws_written, ws_count>>

\* --------------------------------------------- WebSocket: run_poll_loop

\* remove_connection_if_exists: the entry is removed and its socket closed.
remove_connection_if_exists(st, token) ==
    [st EXCEPT !.connections[token] = AbsentConnection,
               !.ws_stream[token] = NoWsStream]

\* The counter is incremented, wrapping, and no token is skipped.
NextPollTokenNoSkip(counter) == (counter + 1) % TokenModulus

\* The token of the next accepted stream: the counter is incremented,
\* wrapping, and the tokens of the listener and the channel are skipped.
NextPollToken(counter) ==
    LET n == (counter + 1) % TokenModulus
    IN  IF n < 2 THEN 2 ELSE n

\* accept_new_streams: every waiting stream is accepted.  st holds the
\* connections, the sockets, the token counter and the accept count.
RECURSIVE accept_new_streams(_, _, _)
accept_new_streams(st, queue, valid_until) ==
    IF queue = <<>> THEN st
    ELSE LET token == NextPollToken(st.poll_token_counter)
             removed == remove_connection_if_exists(st, token)
             accepted ==
                 [removed EXCEPT
                     !.poll_token_counter = token,
                     !.accepted = @ + 1,
                     !.connections[token] =
                         [state |-> "handshake", peer_addr |-> queue[1],
                          valid_until |-> valid_until, id |-> st.accepted + 1],
                     !.ws_stream[token] = [rx |-> <<>>, peer |-> "open"]]
         IN  accept_new_streams(accepted, Tail(queue), valid_until)

\* The messages read from an established connection: those forwarded to
\* the request workers and the local responses.
\* The access list is not consulted: every info hash passes.
AccessListIgnored(info_hash) == TRUE

AccessListAllows(info_hash) == info_hash \in env.allowed

RECURSIVE read_messages(_, _, _)
read_messages(st, msgs, meta) ==
    IF msgs = <<>> THEN st
    ELSE LET m == msgs[1]
             next ==
                 IF m.kind = "AnnounceRequest" /\ ~AccessListAllows(m.info_hash)
                 THEN [st EXCEPT !.local_responses = Append(@,
                          [meta |-> meta, msg |-> ErrorResponse("Info hash not allowed")])]
                 ELSE IF m.kind = "Unparsable"
                 THEN [st EXCEPT !.local_responses = Append(@,
                          [meta |-> meta, msg |-> ErrorResponse("Error parsing message")])]
                 ELSE [st EXCEPT !.in_messages = Append(@, [meta |-> meta, msg |-> m])]
         IN  read_messages(next, Tail(msgs), meta)

\* run_handshakes_and_read_messages for a poll token.  hs is the outcome
\* of Connection::advance_handshakes when the connection is not yet
\* established: "done", "wait" (more bytes are needed) or "fail".
run_handshakes_and_read_messages(st, token, valid_until, hs) ==
    LET c == st.connections[token]
        touched == [st EXCEPT !.connections[token].valid_until = valid_until]
        established == [touched EXCEPT !.connections[token].state = "established"]
        read == [read_messages(established, st.ws_stream[token].rx,
                               ConnectionMeta(token, c))
                    EXCEPT !.ws_stream[token].rx = <<>>]
    IN  IF c.state = "absent" THEN st
        ELSE IF c.state = "handshake" /\ hs = "wait" THEN touched
        ELSE IF c.state = "handshake" /\ hs = "fail"
        THEN [st EXCEPT !.connections[token] = AbsentConnection,
                        !.ws_stream[token] = NoWsStream]
        ELSE IF st.ws_stream[token].peer = "closed"
        THEN \* read_message fails after the last message: ConnectionClosed
             remove_connection_if_exists(read, token)
        ELSE read

\* What send_out_messages does with one message: "skip" (no established
\* connection under the token), "mismatch", "write" or "remove" (the
\* write fails).
OutMessageFate(st, m) ==
    LET c == st.connections[m.meta.poll_token]
    IN  IF c.state /= "established" THEN "skip"
        ELSE IF c.peer_addr /= m.meta.naive_peer_addr THEN "mismatch"
        ELSE IF st.ws_stream[m.meta.poll_token].peer = "closed" THEN "remove"
        ELSE "write"

\* send_out_messages: the local responses, then the messages waiting in
\* the channel.
RECURSIVE send_out_messages(_, _)
send_out_messages(st, msgs) ==
    IF msgs = <<>> THEN st
    ELSE LET m == msgs[1]
             fate == OutMessageFate(st, m)
             c == st.connections[m.meta.poll_token]
             logged == [st EXCEPT !.ws_written = Append(@,
                           [fate |-> fate, to |-> c.id, peer_addr |-> c.peer_addr,
                            meta |-> m.meta, msg |-> m.msg])]
             next == IF fate = "remove"
                     THEN remove_connection_if_exists(logged, m.meta.poll_token)
                     ELSE logged
         IN  send_out_messages(next, Tail(msgs))

\* remove_inactive_connections: the entries whose deadline has passed go.
remove_inactive_connections(st) ==
    [st EXCEPT
        !.connections = [t \in WsTokens |->
            IF @[t].state /= "absent" /\ @[t].valid_until < now
            THEN AbsentConnection ELSE @[t]],
        !.ws_stream = [t \in WsTokens |->
            IF st.connections[t].state /= "absent" /\ st.connections[t].valid_until < now
            THEN NoWsStream ELSE @[t]]]

\* The worker's state as one record, for the operators above.
WsState ==
    [connections |-> connections, ws_stream |-> ws_stream,
     poll_token_counter |-> poll_loop.poll_token_counter,
     accepted |-> ws_count.accepted, local_responses |-> <<>>,
     in_messages |-> in_messages, ws_written |-> ws_written]

WsCommit(st, loop) ==
    /\ connections' = st.connections
    /\ ws_stream' = st.ws_stream
    /\ in_messages' = st.in_messages
    /\ ws_written' = st.ws_written
    /\ ws_count' = [ws_count EXCEPT !.accepted = st.accepted]
    /\ poll_loop' = [loop EXCEPT !.poll_token_counter = st.poll_token_counter]
    /\ overdue' = [t \in WsTokens |->
          IF st.connections[t].state = "absent"
             \/ st.connections[t].valid_until >= now
          THEN 0
          ELSE overdue[t] + (IF loop.iter_counter = poll_loop.iter_counter
                             THEN 0 ELSE 1)]

\* The tokens poll may report: the listener with a peer waiting, the
\* channel with messages waiting, a connection with bytes to read, a
\* handshake to advance or a peer that has closed.
ReadyTokens ==
    {LISTENER_TOKEN : x \in {1 : y \in 1..Len(backlog)}}
    \cup {CHANNEL_TOKEN : x \in {1 : y \in 1..Len(out_messages)}}
    \cup {t \in WsTokens : /\ connections[t].state /= "absent"
                           /\ \/ ws_stream[t].rx /= <<>>
                              \/ ws_stream[t].peer = "closed"
                              \/ connections[t].state = "handshake"}

\* poll.poll returns with the events of the ready tokens (none after the
\* timeout); valid_until is computed for the iteration.
WsPoll ==
    /\ transport = "ws"
    /\ poll_loop.phase = "poll"
    /\ poll_loop.iter_counter < env.iters
    /\ poll_loop' = [poll_loop EXCEPT !.phase = "events",
                                      !.events = SortedSeq(ReadyTokens),
                                      !.valid_until = now + MaxAge]
    /\ UNCHANGED <<transport, env, bytesVars, mergeVars, httpVars, sweep_log, overdue, connections, now, backlog,
                   ws_stream, in_messages, out_messages, ws_written, ws_count>>

\* The body of `for event in events.iter()` for one event.
WsEvent ==
    /\ transport = "ws"
    /\ poll_loop.phase = "events"
    /\ poll_loop.events /= <<>>
    /\ LET token == poll_loop.events[1]
           loop == [poll_loop EXCEPT !.events = Tail(@)]
       IN  \E hs \in {"done", "wait", "fail"} :
             LET handled ==
                     IF token = LISTENER_TOKEN
                     THEN accept_new_streams(WsState, backlog, poll_loop.valid_until)
                     ELSE IF token /= CHANNEL_TOKEN
                     THEN run_handshakes_and_read_messages(
                              WsState, token, poll_loop.valid_until, hs)
                     ELSE WsState
                 sent == send_out_messages(handled,
                             handled.local_responses \o out_messages)
             IN  /\ WsCommit(sent, loop)
                 /\ backlog' = IF token = LISTENER_TOKEN THEN <<>> ELSE backlog
    /\ out_messages' = <<>>
    /\ UNCHANGED <<transport, env, bytesVars, mergeVars, httpVars, now, sweep_log>>

SweepEvery == 128

\* The test is made after the counter was incremented.
SweepDueAfterIncrement(iter_counter) == (iter_counter + 1) % SweepEvery = 0

\* if iter_counter % 128 == 0
SweepDue(iter_counter) == iter_counter % SweepEvery = 0

\* The end of a poll iteration: the sweep, every SweepEvery iterations.
WsEndIteration ==
    /\ transport = "ws"
    /\ poll_loop.phase = "events"
    /\ poll_loop.events = <<>>
    /\ LET due == SweepDue(poll_loop.iter_counter)
           swept == IF due THEN remove_inactive_connections(WsState)
                    ELSE WsState
           removed == {t \in WsTokens : /\ connections[t].state /= "absent"
                                        /\ swept.connections[t].state = "absent"}
       IN  /\ WsCommit(swept, [poll_loop EXCEPT !.phase = "poll",
                                                !.iter_counter = @ + 1])
           /\ sweep_log' = IF due
                           THEN Append(sweep_log,
                                    [iter |-> poll_loop.iter_counter,
                                     removed |-> removed])
                           ELSE sweep_log
    /\ UNCHANGED <<transport, env, bytesVars, mergeVars, httpVars, now, backlog, out_messages>>

NextWs ==
    \/ WsPeerConnect
    \/ \E t \in WsTokens : WsPeerSend(t)
    \/ \E t \in WsTokens : WsPeerClose(t)
    \/ WsTick
    \/ WsWorkerRespond
    \/ WsPoll
    \/ WsEvent
    \/ WsEndIteration

\* ------------------------------------------------------ the specification

NextHttp ==
    \/ Accept
    \/ \E c \in ConnIds : PeerSendHead(c)
    \/ \E c \in ConnIds : PeerSendEnd(c)
    \/ \E c \in ConnIds : PeerSendGarbage(c)
    \/ \E c \in ConnIds : PeerClose(c)
    \/ \E c \in ConnIds : ReadTls(c)
    \/ \E c \in ConnIds : WaitForResponse(c)
    \/ \E c \in ConnIds : WriteTls(c)
    \/ \E w \in Workers : ReceiveResponses(w)
    \/ \E w \in Workers : WorkerRespond(w)

\* The requests of the connection-level specifications: an Announce, a
\* Scrape of two shards and the empty Scrape.
FewRequests ==
    {[kind |-> "Announce", info_hashes |-> <<<<1>>>>],
     [kind |-> "Scrape", info_hashes |-> <<<<0>>, <<1>>>>],
     [kind |-> "Scrape", info_hashes |-> <<>>]}

WsMessages == {WsAnnounce(<<0>>), WsAnnounce(<<1>>), WsScrape, WsUnparsable}

Env(requests, conns, sends) ==
    [requests |-> requests, conns |-> conns, sends |-> sends, strays |-> 0,
     stray_kinds |-> {}, stray_addrs |-> {}, addrs |-> {1}, ws_messages |-> {}, allowed |-> {}, iters |-> 0,
     max_time |-> 0]

EnvWs ==
    [requests |-> {}, conns |-> TokenModulus - 1, sends |-> MaxMessages,
     strays |-> 0, stray_kinds |-> {}, stray_addrs |-> {}, addrs |-> Addrs, ws_messages |-> WsMessages, allowed |-> {<<0>>},
     iters |-> MaxIters, max_time |-> MaxTime]

Init ==
    /\ \/ /\ transport = "http"
          /\ env = Env(FewRequests, MaxConns, MaxRequests)
          /\ keep_alive \in BOOLEAN
       \/ /\ transport = "ws"
          /\ env = EnvWs
          /\ keep_alive = FALSE
    /\ InitHttp
    /\ InitWs
    /\ InitBytes
    /\ InitMerge

Next == NextHttp \/ NextWs

Spec == Init /\ [][Next]_vars

\* One connection, one request, every request of the model: the dispatch
\* of handle_request.
InitDispatch ==
    /\ transport = "http"
    /\ env = Env(Requests, 1, 1)
    /\ keep_alive \in BOOLEAN
    /\ InitHttp
    /\ InitWs
    /\ InitBytes
    /\ InitMerge

SpecDispatch == InitDispatch /\ [][NextHttp]_vars

\* queue_response on every body of up to MaxBody bytes.
InitQueue ==
    /\ transport = "bytes"
    /\ env = Env({}, 0, 0)
    /\ keep_alive = FALSE
    /\ InitHttp
    /\ InitWs
    /\ body \in {[i \in 1..n |-> 120] : n \in 0..MaxBody}
    /\ response_bytes = <<>>
    /\ reserved = 0
    /\ InitMerge

SpecQueue == InitQueue /\ [][QueueResponseBytes]_vars

\* The merge of the shard responses of one Scrape, in every order of
\* arrival: handle_request has set the pending scrape for n shards.
InitScrapeMerge ==
    /\ transport = "merge"
    /\ env = Env({}, 0, 0)
    /\ keep_alive = FALSE
    /\ InitHttp
    /\ InitWs
    /\ InitBytes
    /\ \E n \in 1..MergeShards :
          /\ shard_responses \in ShardResponses(n)
          /\ pending_scrape = Some([pending_worker_responses |-> n,
                                    stats |-> NoFiles])
    /\ merged = {}
    /\ scrape_response = None

SpecMerge == InitScrapeMerge /\ [][\E i \in 1..MergeShards : MergeShardResponse(i)]_vars

\* The WebSocket worker over more than SweepEvery poll iterations, with one
\* peer and a clock that passes the peer's deadline.
SweepIters == SweepEvery + 2
SweepTime == MaxAge + 2

InitSweep ==
    /\ transport = "ws"
    /\ env = [EnvWs EXCEPT !.conns = 1, !.addrs = {1},
                           !.ws_messages = {WsAnnounce(<<0>>)},
                           !.iters = SweepIters, !.max_time = SweepTime]
    /\ keep_alive = FALSE
    /\ InitHttp
    /\ InitWs
    /\ InitBytes
    /\ InitMerge

SpecSweep == InitSweep /\ [][NextWs]_vars

\* The WebSocket socket worker alone, with peers that connect, send and
\* close, a clock and a request worker.
InitWsWorker ==
    /\ transport = "ws"
    /\ env = EnvWs
    /\ keep_alive = FALSE
    /\ InitHttp
    /\ InitWs
    /\ InitBytes
    /\ InitMerge

SpecWs == InitWsWorker /\ [][NextWs]_vars

\* Connections that come and go: every connection of the table, one
\* request.
InitTable ==
    /\ transport = "http"
    /\ env = Env({[kind |-> "Announce", info_hashes |-> <<<<1>>>>]}, MaxConns, 1)
    /\ keep_alive \in BOOLEAN
    /\ InitHttp
    /\ InitWs
    /\ InitBytes
    /\ InitMerge

SpecTable == InitTable /\ [][NextHttp]_vars

\* One connection and the requests, garbage and closes of its peer.
InitConn ==
    /\ transport = "http"
    /\ env = Env(FewRequests, 1, MaxRequests)
    /\ keep_alive \in BOOLEAN
    /\ InitHttp
    /\ InitWs
    /\ InitBytes
    /\ InitMerge

SpecConn == InitConn /\ [][NextHttp]_vars

\* Both transports, with a request worker of the HTTP tracker that sends
\* one response nobody asked for.
InitDemux ==
    /\ \/ /\ transport = "http"
          /\ env = [Env({[kind |-> "Announce", info_hashes |-> <<<<1>>>>]},
                        MaxConns, 1)
                       EXCEPT !.strays = 1,
                              !.stray_kinds = {"Announce", "Scrape"},
                              !.stray_addrs = Addrs]
          /\ keep_alive = TRUE
       \/ /\ transport = "ws"
          /\ env = EnvWs
          /\ keep_alive = FALSE
    /\ InitHttp
    /\ InitWs
    /\ InitBytes
    /\ InitMerge

NextDemux == NextHttp \/ (\E w \in Workers : StrayResponse(w)) \/ NextWs

SpecDemux == InitDemux /\ [][NextDemux]_vars

\* Request workers that also send responses nobody asked for.
InitStray ==
    /\ transport = "http"
    /\ env = [Env({[kind |-> "Announce", info_hashes |-> <<<<1>>>>]}, MaxConns, 1)
                 EXCEPT !.strays = R + 2,
                        !.stray_kinds = {"Announce"},
                        !.stray_addrs = {1}]
    /\ keep_alive = TRUE
    /\ InitHttp
    /\ InitWs
    /\ InitBytes
    /\ InitMerge

NextStray == NextHttp \/ \E w \in Workers : StrayResponse(w)

SpecStray == InitStray /\ [][NextStray]_vars

\* The tasks of the socket worker are scheduled by its executor, which
\* runs every task that is ready; the request workers run on threads of
\* their own.  The peers owe nothing.
Fairness ==
    /\ \A c \in ConnIds : WF_vars(ReadTls(c))
    /\ \A c \in ConnIds : WF_vars(WaitForResponse(c))
    /\ \A c \in ConnIds : WF_vars(WriteTls(c))
    /\ \A w \in Workers : WF_vars(ReceiveResponses(w))
    /\ \A w \in Workers : WF_vars(WorkerRespond(w))

InitFair ==
    /\ transport = "http"
    /\ env = Env({[kind |-> "Announce", info_hashes |-> <<<<0>>>>],
                  [kind |-> "Announce", info_hashes |-> <<<<1>>>>],
                  [kind |-> "Scrape", info_hashes |-> <<>>]}, MaxConns, MaxRequests)
    /\ keep_alive \in BOOLEAN
    /\ InitHttp
    /\ InitWs
    /\ InitBytes
    /\ InitMerge

FairSpec == InitFair /\ [][NextHttp]_vars /\ Fairness

\* ------------------------------------------------------------ properties

Last(s) == s[Len(s)]

\* The connections that handled a request in this step.
Dispatched(c) == Len(dispatch_log'[c]) = Len(dispatch_log[c]) + 1

\* C1: when a connection handles Announce(h), handle_request attempts
\* exactly one mesh send, to request worker byte0(h) mod R, and the channel
\* of no other request worker changes: the target's channel gains the
\* Announce of h (or, if it is full, nothing).
C1_AnnounceStep ==
    \A c \in ConnIds :
        (Dispatched(c) /\ Last(dispatch_log'[c]).request.kind = "Announce") =>
            LET e == Last(dispatch_log'[c])
                h == e.request.info_hashes[1]
                target == Byte0(h) % R
            IN  /\ Len(e.sends) = 1
                /\ e.sends[1].to = target
                /\ e.sends[1].msg.kind = "Announce"
                /\ e.sends[1].msg.info_hashes = <<h>>
                /\ \A w \in Workers \ {target} : request_mesh'[w] = request_mesh[w]
                /\ request_mesh'[target] =
                       IF e.sends[1].ok
                       THEN Append(request_mesh[target], e.sends[1].msg)
                       ELSE request_mesh[target]

C1_AnnounceOneSend == [][C1_AnnounceStep]_vars

\* An Announce whose first byte is not below R was sent to its worker.
C1_Witness ==
    \E c \in ConnIds : \E i \in 1..Len(dispatch_log[c]) :
        LET e == dispatch_log[c][i]
        IN  /\ e.request.kind = "Announce"
            /\ Byte0(e.request.info_hashes[1]) >= R
            /\ e.sends[1].ok
            /\ \E w \in Workers : \E j \in 1..Len(request_mesh[w]) :
                   request_mesh[w][j] = e.sends[1].msg

\* The shards of a list of info hashes.
ShardsOf(info_hashes) == {Byte0(h) % R : h \in Range(info_hashes)}

\* C2: for a Scrape of the hashes H, handle_request makes one send per
\* distinct shard byte0(h) mod R of H, each to its shard and with hashes of
\* that shard only, and the hashes of the messages together are H.
C2_ScrapeOnePerShard ==
    \A c \in ConnIds : \A i \in 1..Len(dispatch_log[c]) :
        LET e == dispatch_log[c][i]
            H == Range(e.request.info_hashes)
            n == Len(e.sends)
        IN  e.request.kind = "Scrape" =>
              /\ n = Cardinality(ShardsOf(e.request.info_hashes))
              /\ {e.sends[j].to : j \in 1..n} = ShardsOf(e.request.info_hashes)
              /\ \A j \in 1..n :
                    /\ e.sends[j].msg.kind = "Scrape"
                    /\ \A h \in Range(e.sends[j].msg.info_hashes) :
                          Byte0(h) % R = e.sends[j].to
              /\ UNION {Range(e.sends[j].msg.info_hashes) : j \in 1..n} = H

\* A Scrape of hashes of two shards was sent, and both messages are in the
\* channels of their workers.
C2_Witness ==
    \E c \in ConnIds : \E i \in 1..Len(dispatch_log[c]) :
        LET e == dispatch_log[c][i]
        IN  /\ e.request.kind = "Scrape"
            /\ Len(e.sends) = 2
            /\ \A j \in 1..2 :
                  /\ e.sends[j].ok
                  /\ e.sends[j].msg \in Range(request_mesh[e.sends[j].to])

EmptyScrape == [kind |-> "Scrape", info_hashes |-> <<>>]

\* The connection handled a Scrape of no hashes and has not answered it.
EmptyScrapeHandled(c) ==
    /\ conn[c].pc = "wait_for_response"
    /\ conn[c].request = EmptyScrape

\* A Scrape response with no files has been written to the peer.
EmptyScrapeAnswered(c) ==
    \E i \in 1..Len(stream[c].tx) :
        stream[c].tx[i] = Response("Scrape", <<>>, NoFiles)

\* C3: a Scrape of no hashes produces no mesh messages, and the connection
\* that handled it eventually writes a Scrape response with no files to the
\* peer (a peer that is still there), with no request worker involved.
C3_EmptyScrapeResponds ==
    /\ [](\A c \in ConnIds : \A i \in 1..Len(dispatch_log[c]) :
            dispatch_log[c][i].request = EmptyScrape =>
                dispatch_log[c][i].sends = <<>>)
    /\ \A c \in ConnIds :
          EmptyScrapeHandled(c) ~>
              (EmptyScrapeAnswered(c) \/ stream[c].peer /= "open")

\* The peer of c sent two Announce requests, nothing else, and the
\* connection's first read returned both.
PipelinedPair(c) ==
    /\ keep_alive
    /\ Len(peer_log[c]) = 4
    /\ \A i \in {1, 3} : /\ peer_log[c][i].t = "head"
                         /\ peer_log[c][i].request.kind = "Announce"
                         /\ peer_log[c][i + 1].t = "end"
    /\ read_log[c] /= <<>>
    /\ read_log[c][1] = 4

AnnounceAnswer(request) == Response("Announce", request.info_hashes, NoFiles)

BothAnswered(c) ==
    /\ Len(dispatch_log[c]) >= 2
    /\ dispatch_log[c][1].request = peer_log[c][1].request
    /\ dispatch_log[c][2].request = peer_log[c][3].request
    /\ Len(stream[c].tx) >= 2
    /\ stream[c].tx[1] = AnnounceAnswer(peer_log[c][1].request)
    /\ stream[c].tx[2] = AnnounceAnswer(peer_log[c][3].request)

\* A mesh send of the connection failed.
DroppedSome(c) ==
    \E i \in 1..Len(dispatch_log[c]) : \E j \in 1..Len(dispatch_log[c][i].sends) :
        ~dispatch_log[c][i].sends[j].ok

\* C4: when two complete requests arrive in one read on a keep-alive
\* connection and every dispatched message is answered, both requests are
\* dispatched and answered, the first before the second, with no further
\* bytes from the peer (who stays connected).
C4_PipelinedBothAnswered ==
    \A c \in ConnIds :
        PipelinedPair(c) ~>
            (BothAnswered(c) \/ DroppedSome(c) \/ stream[c].peer /= "open")

\* The peer of c sent nothing but requests, each complete before the next.
WellFormed(log) ==
    \A i \in 1..Len(log) :
        /\ log[i].t \in {"head", "end"}
        /\ (log[i].t = "head" /\ i < Len(log)) => log[i + 1].t = "end"

\* The requests the peer has completed, in order.
CompleteRequests(log) ==
    LET at == SortedSeq({i \in 1..Len(log) : log[i].t = "end"})
    IN  [k \in 1..Len(at) |-> log[at[k] - 1].request]

Answers(response, request) ==
    /\ response.kind = request.kind
    /\ request.kind = "Announce" => response = AnnounceAnswer(request)

\* C5: on a keep-alive connection whose peer sends requests one after
\* another, the k-th request dispatched is the k-th request the peer sent
\* and the k-th response written answers it: no request is dispatched or
\* answered twice.
C5_OneAnswerPerRequest ==
    \A c \in ConnIds :
        (keep_alive /\ WellFormed(peer_log[c])) =>
            LET requests == CompleteRequests(peer_log[c])
            IN  /\ Len(dispatch_log[c]) <= Len(requests)
                /\ \A k \in 1..Len(dispatch_log[c]) :
                      dispatch_log[c][k].request = requests[k]
                /\ Len(stream[c].tx) <= Len(requests)
                /\ \A k \in 1..Len(stream[c].tx) :
                      Answers(stream[c].tx[k], requests[k])

\* receive_responses took the response at the head of worker w's stream.
Taken(w) == Len(response_mesh'[w]) < Len(response_mesh[w])

\* The connection under the response's connection_id is gone.
Gone(c) == c \notin connection_slab \/ ReceiverClosed(c)

\* C6: a response taken from the response mesh goes to at most one
\* connection, the one under its connection_id, and to none when that
\* connection is gone; every inbox holds only responses addressed to its
\* connection; a WebSocket message is written only to the connection
\* under its poll token, when that connection's peer is the peer the
\* message is for, and is dropped when no connection is there.
C6_DemuxStep ==
    \A w \in Workers :
        Taken(w) =>
            LET r == response_mesh[w][1]
                c == r.connection_id
            IN  /\ \A d \in ConnIds \ {c} : inbox'[d] = inbox[d]
                /\ inbox'[c] \in {inbox[c], Append(inbox[c], r)}
                /\ Gone(c) => inbox'[c] = inbox[c]

C6_Addressed ==
    /\ \A c \in ConnIds : \A i \in 1..Len(inbox[c]) :
          inbox[c][i].connection_id = c
    /\ \A i \in 1..Len(ws_written) :
          LET e == ws_written[i]
          IN  /\ e.fate \in {"write", "remove"} =>
                    /\ e.to /= 0
                    /\ e.peer_addr = e.meta.naive_peer_addr
              /\ e.to = 0 => e.fate = "skip"

TakesMismatch(c) ==
    /\ inbox[c] /= <<>>
    /\ inbox'[c] = Tail(inbox[c])
    /\ PeerAddrKnown(c)
    /\ inbox[c][1].peer_addr /= stream[c].peer_addr

\* C7: a response whose peer_addr differs from the address of the peer of
\* the connection it reaches is not written, and the connection ends: the
\* HTTP connection task returns an error, the WebSocket connection is no
\* longer in the connection table when send_out_messages is done.
C7_HttpStep ==
    \A c \in ConnIds :
        TakesMismatch(c) =>
            /\ conn'[c].pc = "error"
            /\ conn'[c].tls_writer = conn[c].tls_writer
            /\ stream'[c].tx = stream[c].tx

C7_WsTable ==
    \A i \in 1..Len(ws_written) :
        ws_written[i].fate = "mismatch" =>
            \A t \in WsTokens : connections[t].id /= ws_written[i].to

C7_MismatchFatal == [][C7_HttpStep]_vars /\ []C7_WsTable

\* Every mesh send of the connection's last request failed.
DroppedAll(c) ==
    /\ dispatch_log[c] /= <<>>
    /\ Last(dispatch_log[c]).sends /= <<>>
    /\ \A j \in 1..Len(Last(dispatch_log[c]).sends) :
          ~Last(dispatch_log[c]).sends[j].ok

\* C8: when the mesh send of a request fails, the message is not in any
\* channel, no response to the request is written, the connection is not
\* closed, and the connection goes on to read the peer's next request
\* (while the peer is there).
C8_Dropped ==
    \A c \in ConnIds :
        DroppedAll(c) =>
            /\ \A w \in Workers : \A i \in 1..Len(request_mesh[w]) :
                  request_mesh[w][i].connection_id /= c
            /\ Len(stream[c].tx) < Len(dispatch_log[c])
            /\ conn[c].pc \notin {"done", "error"}
            /\ ~stream[c].shutdown

C8_BackpressureKeepsServing ==
    /\ []C8_Dropped
    /\ \A c \in ConnIds :
          DroppedAll(c) ~> (conn[c].pc = "read_tls" \/ stream[c].peer /= "open")

\* C9: receive_responses never waits for an inbox: whenever a response is
\* at the head of a worker's stream it can be taken, and taking it either
\* puts it in the inbox of its connection or drops it, in that step.
C9_DemuxStep ==
    \A w \in Workers :
        Taken(w) =>
            LET r == response_mesh[w][1]
                c == r.connection_id
            IN  IF DemuxFate(r) = "forwarded"
                THEN inbox' = [inbox EXCEPT ![c] = Append(@, r)]
                ELSE inbox' = inbox

C9_Ready ==
    \A w \in Workers : response_mesh[w] /= <<>> => ENABLED ReceiveResponses(w)

C9_DemuxNeverBlocks == [][C9_DemuxStep]_vars /\ []C9_Ready

\* A response was dropped at the full inbox of a connection that does not
\* drain it, and the response for the other connection is in that
\* connection's inbox.
C9_Witness ==
    \E full \in demux_log : \E other \in demux_log :
        /\ full.fate = "full"
        /\ Len(inbox[full.response.connection_id]) = R
        /\ other.fate = "forwarded"
        /\ other.response.connection_id /= full.response.connection_id
        /\ inbox[other.response.connection_id] = <<other.response>>

\* C10: a connection parked for a response that will not come (its
\* dispatch was dropped) ends once its peer has disconnected.
C10_ParkedCleanedUp ==
    \A c \in ConnIds :
        (DroppedAll(c) /\ conn[c].pc = "wait_for_response"
            /\ stream[c].peer /= "open")
        ~> (conn[c].pc \in {"done", "error"})

\* The connection's task has been spawned and has not returned.
Live(c) == conn[c].pc \notin {"vacant", "done", "error", "panicked"}

\* C11: when the task of a connection has returned, its entry is no longer
\* in the connection table: the table holds entries of live connections
\* only.
C11_TableHoldsLive ==
    \A c \in connection_slab : Live(c)

\* C12: every connection that was created has its entry in the table, under
\* the key that is its connection_id, from before its task's first step
\* on, and no two connections have the same connection_id.
C12_OneEntryPerConnection ==
    /\ \A c \in ConnIds :
          conn[c].pc /= "vacant" =>
              /\ c \in connection_slab
              /\ conn[c].connection_id = c
    /\ \A c, d \in ConnIds :
          (c /= d /\ conn[c].pc /= "vacant" /\ conn[d].pc /= "vacant") =>
              conn[c].connection_id /= conn[d].connection_id
    /\ \A c \in ConnIds : \A i \in 1..Len(dispatch_log[c]) :
          \A j \in 1..Len(dispatch_log[c][i].sends) :
              dispatch_log[c][i].sends[j].msg.connection_id = c

\* Two connections are live and the second has dispatched a request under
\* its own connection_id.
C12_Witness ==
    /\ \A c \in {0, 1} : Live(c)
    /\ dispatch_log[1] /= <<>>
    /\ dispatch_log[1][1].sends[1].msg.connection_id = 1

\* C13: once close_after_writing is set it stays set, nothing more is read
\* from the peer, no request is dispatched and nothing more is queued; the
\* connection flushes what is queued and shuts the socket down (or ends
\* with the error of a write to a peer that is gone).  A read of 0 bytes
\* sets the flag and leads to the flush, with no error.
C13_ClosingStep ==
    \A c \in ConnIds :
        /\ conn[c].close_after_writing =>
              /\ conn'[c].close_after_writing
              /\ read_log'[c] = read_log[c]
              /\ dispatch_log'[c] = dispatch_log[c]
              /\ conn'[c].tls_writer \in {conn[c].tls_writer, <<>>}
              /\ conn'[c].pc \in {"write_tls", "done", "error"}
              /\ (conn[c].pc = "write_tls" /\ conn'[c].pc = "done") =>
                    /\ stream'[c].tx = stream[c].tx \o conn[c].tls_writer
                    /\ stream'[c].shutdown
              /\ (conn[c].pc = "write_tls" /\ conn'[c].pc = "error") =>
                    /\ conn[c].tls_writer /= <<>>
                    /\ stream[c].peer = "reset"
        /\ (conn[c].pc = "read_tls" /\ stream[c].rx = <<>>
                /\ stream[c].peer = "closed" /\ conn'[c] /= conn[c]) =>
              /\ conn'[c].close_after_writing
              /\ conn'[c].pc = "write_tls"

C13_ClosingState ==
    \A c \in ConnIds :
        /\ conn[c].close_after_writing =>
              conn[c].pc \in {"write_tls", "done", "error"}
        /\ conn[c].pc = "done" =>
              conn[c].close_after_writing /\ stream[c].shutdown
        /\ stream[c].shutdown => conn[c].pc = "done"

C13_CloseAfterWriting == [][C13_ClosingStep]_vars /\ []C13_ClosingState

\* A keep-alive connection answered a request, read again, read 0 bytes
\* after its peer closed, and shut the socket down.
C13_Witness ==
    \E c \in ConnIds :
        /\ keep_alive
        /\ conn[c].pc = "done"
        /\ stream[c].shutdown
        /\ stream[c].peer = "closed"
        /\ Len(stream[c].tx) = 1
        /\ stream[c].tx[1].kind = "Announce"
        /\ stream[c].rx = <<>>

\* The step queues a FailureResponse on connection c.
QueuesFailure(c) ==
    /\ Len(conn'[c].tls_writer) = Len(conn[c].tls_writer) + 1
    /\ Last(conn'[c].tls_writer).kind = "Failure"

\* The step added plaintext to the request buffer of c and the parser
\* reports the buffer as Invalid.
ParserInvalid(c) ==
    /\ conn'[c].request_buffer /= conn[c].request_buffer
    /\ from_bytes(conn'[c].request_buffer).status = "Invalid"

\* C14: a FailureResponse is queued exactly when the parser reports the
\* buffer as Invalid; then its reason is "Invalid request", nothing is
\* dispatched, close_after_writing is set and the response is flushed
\* before the shutdown.  A connection that ends with an error queues and
\* writes nothing in that step.
C14_FailureStep ==
    \A c \in ConnIds :
        /\ QueuesFailure(c) <=> ParserInvalid(c)
        /\ ParserInvalid(c) =>
              /\ conn'[c].tls_writer = Append(conn[c].tls_writer, FailureResponse)
              /\ Last(conn'[c].tls_writer).failure_reason = "Invalid request"
              /\ conn'[c].close_after_writing
              /\ conn'[c].pc = "write_tls"
              /\ dispatch_log' = dispatch_log
              /\ request_mesh' = request_mesh
        /\ (conn[c].pc /= "error" /\ conn'[c].pc = "error") =>
              /\ conn'[c].tls_writer = conn[c].tls_writer
              /\ stream'[c].tx = stream[c].tx

C14_FailureState ==
    \A c \in ConnIds :
        /\ \A i \in 1..Len(stream[c].tx) :
              stream[c].tx[i].kind = "Failure" =>
                  /\ stream[c].tx[i].failure_reason = "Invalid request"
                  /\ i = Len(stream[c].tx)
                  /\ conn[c].pc = "done"
        /\ stream[c].shutdown => conn[c].tls_writer = <<>>

C14_FailureOnlyIfInvalid == [][C14_FailureStep]_vars /\ []C14_FailureState

\* A peer sent bytes that are no request: the failure response was
\* written, the socket shut down, and nothing was dispatched.
C14_Witness ==
    \E c \in ConnIds :
        /\ stream[c].tx = <<FailureResponse>>
        /\ stream[c].shutdown
        /\ dispatch_log[c] = <<>>
        /\ \A w \in Workers : request_mesh[w] = <<>>

\* The step queues the response to the request of connection c.
QueuesResponse(c) ==
    /\ conn[c].pc = "wait_for_response"
    /\ Len(conn'[c].tls_writer) = Len(conn[c].tls_writer) + 1

\* C15: when the response to a request is queued, close_after_writing is
\* set if keep_alive is false and stays clear if it is true; without
\* keep_alive the connection handles one request, writes one response and
\* is shut down; with keep_alive, and close_after_writing clear, the
\* connection reads again after the write and the socket is not shut down.
C15_KeepAliveStep ==
    \A c \in ConnIds :
        /\ QueuesResponse(c) =>
              /\ conn'[c].close_after_writing = ~keep_alive
              /\ conn'[c].pc = "write_tls"
        /\ (conn[c].pc = "write_tls" /\ conn'[c].pc /= "write_tls") =>
              IF conn[c].close_after_writing
              THEN conn'[c].pc \in {"done", "error"}
              ELSE /\ conn'[c].pc \in {"read_tls", "error"}
                   /\ ~stream'[c].shutdown

C15_KeepAliveState ==
    \A c \in ConnIds :
        /\ ~keep_alive =>
              /\ Len(dispatch_log[c]) <= 1
              /\ Len(stream[c].tx) <= 1
              /\ stream[c].tx /= <<>> => (conn[c].pc = "done" /\ stream[c].shutdown)
        /\ ~conn[c].close_after_writing => ~stream[c].shutdown

C15_KeepAlive == [][C15_KeepAliveStep]_vars /\ []C15_KeepAliveState

\* Without keep_alive: the peer sent two requests, the first was
\* answered and the socket shut down.
C15_Witness ==
    \E c \in ConnIds :
        /\ ~keep_alive
        /\ Len(dispatch_log[c]) = 1
        /\ Len(stream[c].tx) = 1
        /\ stream[c].tx[1].kind = dispatch_log[c][1].request.kind
        /\ stream[c].shutdown
        /\ Len(CompleteRequests(peer_log[c])) = 2

\* The number the decimal digits (ASCII) spell.
RECURSIVE DecimalValue(_)
DecimalValue(digits) ==
    IF digits = <<>> THEN 0
    ELSE 10 * DecimalValue(SubSeq(digits, 1, Len(digits) - 1))
         + (digits[Len(digits)] - Digit0)

\* The digits of the Content-Length header: from byte 34 to the first CR.
ContentLengthDigits(bytes) ==
    LET end == CHOOSE i \in 34..Len(bytes) :
                   bytes[i] = CR /\ \A j \in 34..(i - 1) : bytes[j] /= CR
    IN  SubSeq(bytes, 34, end - 1)

\* The number of decimal digits of a number below 10000.
DigitsOf(n) == IF n < 10 THEN 1 ELSE IF n < 100 THEN 2 ELSE IF n < 1000 THEN 3 ELSE 4

\* C16: for a body of n bytes queue_response writes the Content-Length
\* n + 2, and the bytes it writes are as many as the capacity it reserved,
\* 39 + digits(n + 2) + n: 37 bytes of header and separators, the digits,
\* the body and a final CRLF.
C16_ContentLength ==
    response_bytes /= <<>> =>
        LET n == Len(body)
            d == DigitsOf(n + 2)
        IN  /\ DecimalValue(ContentLengthDigits(response_bytes)) = n + 2
            /\ Len(ContentLengthDigits(response_bytes)) = d
            /\ Len(response_bytes) = reserved
            /\ reserved = 39 + d + n
            /\ SubSeq(response_bytes, 1, 33) = StatusAndContentLength
            /\ SubSeq(response_bytes, 34 + d, 37 + d) = <<CR, LF, CR, LF>>
            /\ SubSeq(response_bytes, 38 + d, 37 + d + n) = body
            /\ SubSeq(response_bytes, 38 + d + n, 39 + d + n) = <<CR, LF>>

\* A body of 98 bytes, whose Content-Length has three digits, was written.
C16_Witness ==
    /\ Len(body) = 98
    /\ response_bytes /= <<>>
    /\ Len(response_bytes) = 140

\* The union of the files of the shard responses in I.
FilesOf(I) ==
    [h \in UNION {DOMAIN shard_responses[i] : i \in I} |->
        shard_responses[CHOOSE i \in I : h \in DOMAIN shard_responses[i]][h]]

\* C17: merging the shard responses of one Scrape is commutative and
\* associative, and in whatever order they arrive the statistics gathered
\* are the union of the files of the responses merged so far; the files of
\* the aggregated response are the union of the files of all of them.
C17_MergeOrderIndependent ==
    LET D == DOMAIN shard_responses
        f == shard_responses
    IN  /\ \A i, j \in D : i /= j => Extend(f[i], f[j]) = Extend(f[j], f[i])
        /\ \A i, j, k \in D :
               Extend(Extend(f[i], f[j]), f[k]) = Extend(f[i], Extend(f[j], f[k]))
        /\ IsSome(pending_scrape) => Unwrap(pending_scrape).stats = FilesOf(merged)
        /\ IsSome(scrape_response) =>
               /\ merged = D
               /\ Unwrap(scrape_response) = FilesOf(D)

\* Three shards answered, not all with the same statistics, and the
\* aggregated response holds the files of all three.
C17_Witness ==
    /\ Len(shard_responses) = 3
    /\ \A i \in 1..3 : shard_responses[i] /= NoFiles
    /\ \E h, g \in DOMAIN FilesOf(1..3) : FilesOf(1..3)[h] /= FilesOf(1..3)[g]
    /\ IsSome(scrape_response)
    /\ DOMAIN Unwrap(scrape_response) = InfoHashes

\* The pending-scrape slot of connection c.
Pending(k) == k.pending_scrape_response

\* Connection c has handled a Scrape that addressed at least one shard and
\* waits for the responses to it.
AwaitingShards(c) ==
    /\ conn[c].pc = "wait_for_response"
    /\ conn[c].request.kind = "Scrape"
    /\ ShardsOf(conn[c].request.info_hashes) /= {}

\* C18: the pending-scrape slot of a connection is present exactly while
\* the connection awaits at least one shard response of a Scrape whose
\* aggregated response is not yet queued: it is absent while an Announce
\* is in flight and once the response is queued, and it is never present
\* with a count of 0.
C18_PendingIffAwaiting ==
    \A c \in ConnIds :
        Live(c) =>
            /\ IsSome(Pending(conn[c])) <=> AwaitingShards(c)
            /\ IsSome(Pending(conn[c])) =>
                   Unwrap(Pending(conn[c])).pending_worker_responses >= 1

\* C19: a pending scrape starts with the number of distinct shards of the
\* Scrape; every merged response lowers pending_worker_responses by
\* exactly one; the count never passes below 0; and the aggregated
\* response is queued exactly when the count reaches 0, so a pending
\* scrape with a count of 0 is never left waiting.
C19_CountStep ==
    \A c \in ConnIds :
        LET p == Pending(conn[c])
            q == Pending(conn'[c])
            count == Unwrap(p).pending_worker_responses
            after == Unwrap(q).pending_worker_responses
            emits == /\ Len(conn'[c].tls_writer) = Len(conn[c].tls_writer) + 1
                     /\ Last(conn'[c].tls_writer).kind = "Scrape"
        IN  /\ (~IsSome(p) /\ IsSome(q)) =>
                   /\ Dispatched(c)
                   /\ after = Cardinality(ShardsOf(conn'[c].request.info_hashes))
                   /\ after = 0 => emits
            /\ (IsSome(p) /\ IsSome(q) /\ p /= q) =>
                   /\ after = count - 1
                   /\ after >= 1
                   /\ conn'[c].tls_writer = conn[c].tls_writer
            /\ (IsSome(p) /\ ~IsSome(q)) =>
                   /\ count = 1
                   /\ emits
            /\ (emits /\ conn'[c].pc /= "vacant") => (IsSome(p) /\ count = 1)

C19_CountState ==
    \A c \in ConnIds :
        IsSome(Pending(conn[c])) =>
            /\ Unwrap(Pending(conn[c])).pending_worker_responses
                   \in 1..Cardinality(ShardsOf(conn[c].request.info_hashes))
            /\ conn[c].request.kind = "Scrape"

C19_PendingCount == [][C19_CountStep]_vars /\ []C19_CountState

\* C20: the sweep of inactive connections runs on the poll iterations
\* whose index, counted from 0, is a multiple of 128 (the first one
\* included) and on no other; so a connection whose deadline has passed
\* is still in the table at the end of fewer than 128 poll iterations:
\* the 128th at the latest removes it.
C20_SweepEvery128 ==
    /\ \A k \in 1..Len(sweep_log) : sweep_log[k].iter = 128 * (k - 1)
    /\ Len(sweep_log) = Cardinality({i \in 0..(poll_loop.iter_counter - 1) :
                                         i % 128 = 0})
    /\ \A t \in WsTokens : overdue[t] < 128
    /\ \A t \in WsTokens :
          overdue[t] > 0 =>
             /\ sweep_log /= <<>>
             /\ overdue[t] <= poll_loop.iter_counter - 1 - Last(sweep_log).iter

\* A connection stayed in the table for 127 poll iterations after its
\* deadline had passed, and the sweep of iteration 128 removed it.
C20_Witness ==
    /\ Len(sweep_log) = 2
    /\ sweep_log[2].iter = 128
    /\ sweep_log[2].removed /= {}
    /\ poll_loop.iter_counter = 129
    /\ \A t \in WsTokens : connections[t].state = "absent"

\* The step handles one event of the poll iteration.
IsWsEvent ==
    /\ poll_loop.phase = "events"
    /\ poll_loop.events /= <<>>
    /\ poll_loop'.events = Tail(poll_loop.events)

\* What send_out_messages logged in this step.
NewlyWritten == {ws_written'[k] : k \in (Len(ws_written) + 1)..Len(ws_written')}

\* The socket worker did I/O on the connection of token t in this step: the
\* event was the token's (a read attempt or a handshake step), or an
\* out-message was written to it.
Touched(t) ==
    \/ poll_loop.events[1] = t
    \/ \E e \in NewlyWritten : e.fate = "write" /\ e.meta.poll_token = t

\* C21: a connection the socket worker touches while it handles an event
\* of a poll iteration (a read attempt, a handshake step, an out-message
\* written to it) has the iteration's deadline as its valid_until
\* afterwards; a connection it does not touch keeps its valid_until.
C21_TouchStep ==
    IsWsEvent =>
        \A t \in WsTokens :
            (/\ connections[t].state /= "absent"
             /\ connections'[t].state /= "absent"
             /\ connections'[t].id = connections[t].id) =>
                connections'[t].valid_until =
                    IF Touched(t) THEN poll_loop.valid_until
                    ELSE connections[t].valid_until

C21_TouchRefreshes == [][C21_TouchStep]_vars

\* The messages the step added to the channel to the request workers.
NewlyForwarded == SubSeq(in_messages', Len(in_messages) + 1, Len(in_messages'))

\* The local responses of the step: send_out_messages handles them before
\* the messages of the channel, which are never ErrorResponses.
NewLocalResponses ==
    SelectSeq(SubSeq(ws_written', Len(ws_written) + 1, Len(ws_written')),
              LAMBDA e : e.msg.kind = "ErrorResponse")

Disallowed(m) == m.kind = "AnnounceRequest" /\ m.info_hash \notin env.allowed
Parsed(m) == m.kind /= "Unparsable"

\* What reading msgs from the connection with this meta must produce.
ReadAsClaimed(msgs, meta) ==
    LET forward == SelectSeq(msgs, LAMBDA m : Parsed(m) /\ ~Disallowed(m))
        refused == SelectSeq(msgs, Disallowed)
        errors == SelectSeq(NewLocalResponses,
                      LAMBDA e : e.msg = ErrorResponse("Info hash not allowed"))
        others == SelectSeq(NewLocalResponses,
                      LAMBDA e : e.msg /= ErrorResponse("Info hash not allowed"))
    IN  /\ NewlyForwarded = [k \in 1..Len(forward) |->
                                 [meta |-> meta, msg |-> forward[k]]]
        /\ Len(errors) = Len(refused)
        /\ \A k \in 1..Len(errors) : errors[k].meta = meta
        /\ Len(others) = Len(SelectSeq(msgs, LAMBDA m : ~Parsed(m)))

\* C22: of the messages read from a connection, an AnnounceRequest whose
\* info hash the access list does not allow is not forwarded to the
\* request workers and gets exactly one local ErrorResponse "Info hash not
\* allowed" with the connection's metadata; every other message that
\* parses is forwarded with the connection's metadata and gets no local
\* response.  Events that read nothing forward nothing.
C22_AccessListStep ==
    IF IsWsEvent
    THEN LET t == poll_loop.events[1]
         IN  IF t \in WsTokens /\ connections[t].state /= "absent"
             THEN LET meta == ConnectionMeta(t, connections[t])
                  IN  \/ ReadAsClaimed(ws_stream[t].rx, meta)
                      \/ /\ connections[t].state = "handshake"
                         /\ ReadAsClaimed(<<>>, meta)
             ELSE NewlyForwarded = <<>> /\ NewLocalResponses = <<>>
    ELSE Len(in_messages') <= Len(in_messages) /\ ws_written' = ws_written

C22_AccessList == [][C22_AccessListStep]_vars

\* A peer's AnnounceRequest for a hash that is not allowed was answered
\* with the ErrorResponse, written to that peer, and nothing was forwarded.
C22_Witness ==
    /\ ws_count.sent = 1
    /\ in_messages = <<>>
    /\ Len(ws_written) = 1
    /\ ws_written[1].msg = ErrorResponse("Info hash not allowed")
    /\ ws_written[1].fate = "write"
    /\ ws_written[1].to = ws_written[1].meta.origin

\* The token of the k-th accepted connection (k from 1), the tokens of the
\* listener and the channel left out of the cycle.
TokenOf(k) == 2 + ((k - 1) % (TokenModulus - 2))

\* C23: the token of an accepted connection is never 0 or 1, also once the
\* token counter has wrapped, and a token holds one connection: the one
\* accepted last under it, whatever was stored under the token before
\* being removed when the token is used again.
C23_TokensNotReserved ==
    /\ ws_count.accepted > 0 =>
           /\ poll_loop.poll_token_counter \notin {LISTENER_TOKEN, CHANNEL_TOKEN}
           /\ poll_loop.poll_token_counter = TokenOf(ws_count.accepted)
    /\ \A t \in WsTokens :
          connections[t].state /= "absent" =>
             /\ connections[t].id \in 1..ws_count.accepted
             /\ TokenOf(connections[t].id) = t
             /\ \A k \in 1..ws_count.accepted :
                    TokenOf(k) = t => k <= connections[t].id
             /\ ws_stream[t].peer /= "none"
    /\ \A t, u \in WsTokens :
          (t /= u /\ connections[t].state /= "absent"
                  /\ connections[u].state /= "absent") =>
             connections[t].id /= connections[u].id
    /\ \A t \in WsTokens :
          connections[t].state = "absent" => ws_stream[t] = NoWsStream

\* The token counter has wrapped within one call of accept_new_streams:
\* the first connection was still stored under token 2 when the token was
\* given to the last accepted connection, which now holds it.
C23_Witness ==
    /\ ws_count.accepted = TokenModulus - 1
    /\ poll_loop.iter_counter = 0
    /\ poll_loop.poll_token_counter = 2
    /\ connections[2].state /= "absent"
    /\ connections[2].id = TokenModulus - 1

\* The messages of a sequence that carry the connection id of c.
OfConnection(msgs, c) == SelectSeq(msgs, LAMBDA m : m.connection_id = c)

\* The requests and responses of connection c that are on their way: in
\* the channels of the request workers or in the connection's inbox.
InFlight(c) ==
    LET RECURSIVE Sum(_)
        Sum(W) == IF W = {} THEN 0
                  ELSE LET w == CHOOSE x \in W : TRUE
                       IN  Len(OfConnection(request_mesh[w], c))
                           + Len(OfConnection(response_mesh[w], c))
                           + Sum(W \ {w})
    IN  Sum(Workers) + Len(inbox[c])

\* C24: with request workers that send one response per request message,
\* a connection has one request in flight at a time: what is on its way
\* belongs to the request it handled last and waits for; its inbox never
\* holds more than R responses, and receive_responses never finds the
\* inbox of a live connection full.
C24_InboxNeverFull ==
    /\ \A c \in ConnIds :
          /\ Len(inbox[c]) <= R
          /\ \A k \in 1..Len(inbox[c]) : inbox[c][k].connection_id = c
          /\ InFlight(c) > 0 =>
                 /\ dispatch_log[c] /= <<>>
                 /\ InFlight(c) <= Len(Last(dispatch_log[c]).sends)
                 /\ InFlight(c) <= R
                 /\ Live(c) => /\ conn[c].pc = "wait_for_response"
                                /\ conn[c].request = Last(dispatch_log[c]).request
    /\ \A e \in demux_log : e.fate /= "full"

\* Both shard responses of a Scrape wait in the inbox of the connection,
\* which has not taken either yet.
C24_Witness ==
    \E c \in ConnIds :
        /\ conn[c].pc = "wait_for_response"
        /\ Len(inbox[c]) = 2
        /\ \A k \in 1..2 : inbox[c][k].kind = "Scrape"
        /\ Cardinality({e \in demux_log : e.fate = "forwarded"}) >= 1

====
